---- MODULE Spec2Model ----
(***************************************************************************)
(* Model of src/validators/roi_validator.py (class PrologValidator).       *)
(*                                                                         *)
(* The validator keeps one field, prolog_available, set by the constructor.*)
(* Every public method is one action; the action records the call and what *)
(* it returned (or the exception it ended with) in `last`.  The external   *)
(* engine (the swipl process) is opaque: each query ends in one of the     *)
(* outcomes subprocess.run can produce.                                    *)
(***************************************************************************)
EXTENDS Integers, Sequences, FiniteSets, TLC

\* The keys of the dicts and the fields of the records of the model.  Every
\* record below lists its fields in this (alphabetical) order.
Keys ==
    [actual_costs |-> "actual_costs", actual_revenue |-> "actual_revenue",
     ai_friendly |-> "ai_friendly", alt |-> "alt",
     alternative |-> "alternative", args |-> "args", b |-> "b",
     business_model_sound |-> "business_model_sound", cac |-> "cac",
     checks |-> "checks", code_complete |-> "code_complete",
     context |-> "context", costs |-> "costs",
     current_phase |-> "current_phase", d |-> "d",
     decision |-> "decision", deploy_simple |-> "deploy_simple",
     deployment_ready |-> "deployment_ready", ended |-> "ended",
     exc |-> "exc", gate |-> "gate", i |-> "i", items |-> "items", key |-> "key",
     kind |-> "kind", lines |-> "lines", ltv |-> "ltv", margin |-> "margin",
     market_validated |-> "market_validated", n |-> "n", op |-> "op",
     overall |-> "overall", phase |-> "phase", pred |-> "pred",
     queries |-> "queries", query |-> "query", ratio |-> "ratio",
     reason |-> "reason", recommendation |-> "recommendation",
     research_complete |-> "research_complete", result |-> "result",
     returncode |-> "returncode", revenue |-> "revenue",
     risks_mitigated |-> "risks_mitigated", roi |-> "roi", run |-> "run",
     s |-> "s", simpler_checked |-> "simpler_checked", success |-> "success",
     sustainability_proven |-> "sustainability_proven", t |-> "t",
     tech |-> "tech", tech_choices |-> "tech_choices", tech_stack |-> "tech_stack",
     tech_stack_validated |-> "tech_stack_validated",
     tests_passing |-> "tests_passing", threshold |-> "threshold",
     tier |-> "tier", timeline_realistic |-> "timeline_realistic",
     unvalidated_claims |-> "unvalidated_claims", valid |-> "valid",
     validated_by |-> "validated_by",
     validation_complete |-> "validation_complete", value |-> "value",
     warning |-> "warning"]

VARIABLES
    prolog_available,   \* self.prolog_available (line 23)
    last,               \* the last public call: its operation, arguments and result
    marked              \* an earlier call kept for comparison with later ones

vars == <<prolog_available, last, marked>>

(***************************************************************************)
(* Bounds of the model.                                                    *)
(***************************************************************************)
MaxRevenue == 5
MaxCosts == 2
MaxReturnCode == 1
MaxTechs == 2

(***************************************************************************)
(* Python values.  A float is kept as the exact quotient n/d (d > 0) of    *)
(* the two integers it was computed from.                                  *)
(***************************************************************************)
None_ == [t |-> "none"]
PyBool(b) == [b |-> b, t |-> "bool"]
PyInt(i) == [i |-> i, t |-> "int"]
PyStr(s) == [s |-> s, t |-> "str"]
PyFloat(n, d) == [d |-> d, n |-> n, t |-> "float"]

\* bool(v): Python truthiness
Truthy(v) ==
    CASE v.t = "none" -> FALSE
      [] v.t = "bool" -> v.b
      [] v.t = "int" -> v.i # 0
      [] v.t = "str" -> v.s # ""
      [] v.t = "float" -> v.n # 0

\* a and b: Python's `and` yields an operand, not a bool
PyAnd(a, b) == IF Truthy(a) THEN b ELSE a

\* the types that support <=, - and / with a number (bool is an int)
IsNum(v) == v.t \in {"bool", "int"}
NumOf(v) == IF v.t = "bool" THEN (IF v.b THEN 1 ELSE 0) ELSE v.i

\* dict.get(key, default)
DictGet(d, k, default) == IF k \in DOMAIN d THEN d[k] ELSE default

\* how a call ends: with a value, or with an exception; q lists the engine
\* queries the call made
Return(v, q) == [kind |-> "return", queries |-> q, value |-> v]
Raise(e, q) == [exc |-> e, kind |-> "raise", queries |-> q]

(***************************************************************************)
(* The external engine.                                                    *)
(***************************************************************************)
\* what subprocess.run(["swipl", ...], timeout=5) can do
RunOutcomes ==
    {[kind |-> "exit", returncode |-> rc] : rc \in 0..MaxReturnCode}
    \cup {[exc |-> e, kind |-> "raise"] : e \in {"TimeoutExpired", "OSError"}}

\* what the probe subprocess.run(["swipl", "--version"], check=True) can do
\* without failing the construction
ProbeOutcomes == {"ok", "CalledProcessError", "FileNotFoundError"}

_check_prolog_available(probe) == probe = "ok"

\* except (subprocess.TimeoutExpired, Exception)
QueryCatches(exc) == exc \in {"TimeoutExpired", "OSError"}

Success == [success |-> TRUE]

_query_prolog_nonzero_ok(query, run) ==
    IF ~prolog_available THEN [kind |-> "return", value |-> None_]
    ELSE IF run.kind = "raise" THEN [kind |-> "return", value |-> None_]
    ELSE [kind |-> "return", value |-> Success]

\* _query_prolog(query), when the process ends as `run`
_query_prolog(query, run) ==
    IF ~prolog_available THEN [kind |-> "return", value |-> None_]
    ELSE IF run.kind = "raise"
         THEN (IF QueryCatches(run.exc)
               THEN [kind |-> "return", value |-> None_]
               ELSE [exc |-> run.exc, kind |-> "raise"])
    ELSE IF run.returncode = 0 THEN [kind |-> "return", value |-> Success]
    ELSE [kind |-> "return", value |-> None_]

\* the record of one query: the goal text, how the process ended and how
\* _query_prolog ended
Query(pred, a, b) == [args |-> <<a, b>>, pred |-> pred]
Asked(query, run, ended) == <<[ended |-> ended, query |-> query, run |-> run]>>

(***************************************************************************)
(* Threshold metrics.  Thresholds are kept as integers: 1.5 as 3/2.        *)
(***************************************************************************)
RoiThresholdNum == 3
RoiThresholdDen == 2
LtvCacThreshold == 3
MarginThreshold == 20

\* roi >= 1.5 for roi = n/d, d > 0
RoiAtLeastThreshold(roi) == roi.n * RoiThresholdDen >= RoiThresholdNum * roi.d

\* the part of a metric after its guard: the delegation and the fallback
\* (lines 41-61, 70-89, 98-117), given the dict of either path
Delegate(pred, a, b, run, prolog, python) ==
    LET q == IF prolog_available
             THEN _query_prolog(Query(pred, a, b), run)
             ELSE [kind |-> "return", value |-> None_]
        asked == IF prolog_available THEN Asked(Query(pred, a, b), run, q) ELSE <<>>
    IN  IF q.kind = "raise" THEN Raise(q.exc, asked)
        ELSE IF q.value # None_ THEN Return(prolog, asked)
        ELSE Return(python, asked)

RoiResult(roi, valid, by) ==
    IF by = "prolog"
    THEN [roi |-> roi,
          threshold |-> PyFloat(RoiThresholdNum, RoiThresholdDen),
          valid |-> PyBool(TRUE),
          validated_by |-> PyStr("prolog")]
    ELSE [reason |-> PyStr(IF ~valid THEN "ROI below 1.5x threshold" ELSE "ROI acceptable"),
          roi |-> roi,
          threshold |-> PyFloat(RoiThresholdNum, RoiThresholdDen),
          valid |-> PyBool(valid),
          validated_by |-> PyStr("python")]

validate_roi_no_guard(revenue, costs, run) ==
    IF ~IsNum(costs) \/ ~IsNum(revenue) THEN Raise("TypeError", <<>>)
    ELSE IF NumOf(costs) = 0 THEN Raise("ZeroDivisionError", <<>>)
    ELSE LET d == IF NumOf(costs) > 0 THEN NumOf(costs) ELSE -NumOf(costs)
             n == IF NumOf(costs) > 0 THEN NumOf(revenue) - NumOf(costs)
                  ELSE NumOf(costs) - NumOf(revenue)
             roi == PyFloat(n, d)
         IN  Delegate("roi_positive", revenue, costs, run,
                      RoiResult(roi, TRUE, "prolog"),
                      RoiResult(roi, RoiAtLeastThreshold(roi), "python"))

validate_roi_strict(revenue, costs, run) ==
    IF ~IsNum(costs) THEN Raise("TypeError", <<>>)
    ELSE IF NumOf(costs) <= 0
    THEN Return([reason |-> PyStr("Costs must be positive"),
                 roi |-> None_,
                 valid |-> PyBool(FALSE)], <<>>)
    ELSE IF ~IsNum(revenue) THEN Raise("TypeError", <<>>)
    ELSE LET roi == PyFloat(NumOf(revenue) - NumOf(costs), NumOf(costs))
         IN  Delegate("roi_positive", revenue, costs, run,
                      RoiResult(roi, TRUE, "prolog"),
                      RoiResult(roi, roi.n * RoiThresholdDen > RoiThresholdNum * roi.d, "python"))

validate_roi_cached(revenue, costs, run) ==
    IF last.op = "validate_roi" THEN last.result
    ELSE IF ~IsNum(costs) THEN Raise("TypeError", <<>>)
    ELSE IF NumOf(costs) <= 0
    THEN Return([reason |-> PyStr("Costs must be positive"),
                 roi |-> None_,
                 valid |-> PyBool(FALSE)], <<>>)
    ELSE IF ~IsNum(revenue) THEN Raise("TypeError", <<>>)
    ELSE LET roi == PyFloat(NumOf(revenue) - NumOf(costs), NumOf(costs))
         IN  Delegate("roi_positive", revenue, costs, run,
                      RoiResult(roi, TRUE, "prolog"),
                      RoiResult(roi, RoiAtLeastThreshold(roi), "python"))

\* validate_roi(revenue, costs), when the engine process (if asked) ends as `run`
validate_roi(revenue, costs, run) ==
    IF ~IsNum(costs) THEN Raise("TypeError", <<>>)
    ELSE IF NumOf(costs) <= 0
    THEN Return([reason |-> PyStr("Costs must be positive"),
                 roi |-> None_,
                 valid |-> PyBool(FALSE)], <<>>)
    ELSE IF ~IsNum(revenue) THEN Raise("TypeError", <<>>)
    ELSE LET roi == PyFloat(NumOf(revenue) - NumOf(costs), NumOf(costs))
         IN  Delegate("roi_positive", revenue, costs, run,
                      RoiResult(roi, TRUE, "prolog"),
                      RoiResult(roi, RoiAtLeastThreshold(roi), "python"))

\* validate_ltv_cac(ltv, cac)
validate_ltv_cac(ltv, cac, run) ==
    IF ~IsNum(cac) THEN Raise("TypeError", <<>>)
    ELSE IF NumOf(cac) <= 0
    THEN Return([ratio |-> None_,
                 reason |-> PyStr("CAC must be positive"),
                 valid |-> PyBool(FALSE)], <<>>)
    ELSE IF ~IsNum(ltv) THEN Raise("TypeError", <<>>)
    ELSE LET ratio == PyFloat(NumOf(ltv), NumOf(cac))
             valid == ratio.n >= LtvCacThreshold * ratio.d
         IN  Delegate("ltv_cac_acceptable", ltv, cac, run,
                      [ratio |-> ratio,
                       threshold |-> PyFloat(LtvCacThreshold, 1),
                       valid |-> PyBool(TRUE),
                       validated_by |-> PyStr("prolog")],
                      [ratio |-> ratio,
                       reason |-> PyStr(IF ~valid THEN "LTV:CAC below 3:1 threshold"
                                        ELSE "Unit economics strong"),
                       threshold |-> PyFloat(LtvCacThreshold, 1),
                       valid |-> PyBool(valid),
                       validated_by |-> PyStr("python")])

\* validate_margin(revenue, costs)
validate_margin(revenue, costs, run) ==
    IF ~IsNum(revenue) THEN Raise("TypeError", <<>>)
    ELSE IF NumOf(revenue) <= 0
    THEN Return([margin |-> None_,
                 reason |-> PyStr("Revenue must be positive"),
                 valid |-> PyBool(FALSE)], <<>>)
    ELSE IF ~IsNum(costs) THEN Raise("TypeError", <<>>)
    ELSE LET margin == PyFloat((NumOf(revenue) - NumOf(costs)) * 100, NumOf(revenue))
             valid == margin.n >= MarginThreshold * margin.d
         IN  Delegate("margin_acceptable", revenue, costs, run,
                      [margin |-> margin,
                       threshold |-> PyFloat(MarginThreshold, 1),
                       valid |-> PyBool(TRUE),
                       validated_by |-> PyStr("prolog")],
                      [margin |-> margin,
                       reason |-> PyStr(IF ~valid THEN "Margin below 20% threshold"
                                        ELSE "Margin acceptable"),
                       threshold |-> PyFloat(MarginThreshold, 1),
                       valid |-> PyBool(valid),
                       validated_by |-> PyStr("python")])

(***************************************************************************)
(* Phase gates.  A context is a dict: a function whose domain is the keys  *)
(* present.  A check string is the sequence of the pieces it is built      *)
(* from; CHECK and CROSS stand for the marks U+2713 and U+2717.            *)
(***************************************************************************)
CHECK == "U+2713"
CROSS == "U+2717"
WARN == "U+26A0"

\* context.get(key) and context.get(key, default)
Get(ctx, k) == IF k \in DOMAIN ctx THEN ctx[k] ELSE None_
GetDefault(ctx, k, default) == IF k \in DOMAIN ctx THEN ctx[k] ELSE default

\* "U+2713" in check
HasCheckMark(check) == \E i \in DOMAIN check : check[i] = CHECK

TwoDigits(k) == IF k < 10 THEN "0" \o ToString(k) ELSE ToString(k)

\* f"{v:.2f}" of a number: n/d rounded to hundredths (ties to even)
Fmt2(v) ==
    LET n == IF v.t = "float" THEN v.n ELSE NumOf(v)
        d == IF v.t = "float" THEN v.d ELSE 1
        a == IF n < 0 THEN -n ELSE n
        q == (100 * a) \div d
        r == (100 * a) % d
        h == IF 2 * r > d \/ (2 * r = d /\ q % 2 = 1) THEN q + 1 ELSE q
    IN  (IF n < 0 THEN "-" ELSE "") \o ToString(h \div 100) \o "." \o TwoDigits(h % 100)

\* the exception f"{v:.2f}" ends with, "" when it formats
Fmt2Error(v) ==
    CASE v.t = "none" -> "TypeError"
      [] v.t = "str" -> "ValueError"
      [] OTHER -> ""

\* str.upper() on the tier names
Upper(s) ==
    CASE s = "t1" -> "T1"
      [] s = "t2" -> "T2"
      [] s = "t3" -> "T3"
      [] s = "t4" -> "T4"
      [] OTHER -> s

\* if context.get(key): checks.append(pass) else: checks.append(fail)
FlagCheck(ctx, key, passText, failText) ==
    IF Truthy(Get(ctx, key)) THEN <<CHECK, passText>> ELSE <<CROSS, failText>>

GateDict(valid, gate, checks, proceed, halt) ==
    [checks |-> checks,
     decision |-> IF Truthy(valid) THEN proceed ELSE halt,
     gate |-> gate,
     valid |-> valid]

GateDictReason(valid, gate, checks, proceed, halt, okReason, badReason) ==
    [checks |-> checks,
     decision |-> IF Truthy(valid) THEN proceed ELSE halt,
     gate |-> gate,
     reason |-> IF Truthy(valid) THEN okReason ELSE badReason,
     valid |-> valid]

\* _validate_gate_p1(context)
_validate_gate_p1(ctx) ==
    LET research == FlagCheck(ctx, "research_complete",
                              " Research complete", " Research incomplete")
        tier == GetDefault(ctx, "tier", PyStr("t4"))
        tierOk == tier \in {PyStr("t1"), PyStr("t2")}
        valid == PyAnd(Get(ctx, "research_complete"), PyBool(tierOk))
    IN  IF tier.t # "str" THEN Raise("AttributeError", <<>>)
        ELSE LET tierCheck == IF tierOk
                              THEN <<CHECK, " Tier ", Upper(tier.s), " (proceed)">>
                              ELSE <<CROSS, " Tier ", Upper(tier.s), " (no-go)">>
             IN  Return(GateDictReason(valid, "P0 -> P1", <<research, tierCheck>>,
                                       "PROCEED", "HALT",
                                       "Research validated, tier acceptable",
                                       "Research or tier insufficient"), <<>>)

\* _validate_gate_p2(context)
_validate_gate_p2(ctx) ==
    LET checks == <<FlagCheck(ctx, "business_model_sound",
                              " Business model sound", " Business model weak"),
                    FlagCheck(ctx, "market_validated",
                              " Market validated", " Market not validated")>>
        valid == PyAnd(Get(ctx, "business_model_sound"), Get(ctx, "market_validated"))
    IN  Return(GateDict(valid, "P1 -> P2", checks, "PROCEED", "HALT"), <<>>)

\* the ROI sub-check of gates p3 and p5 (lines 202-207, 275-280): the
\* checks it appends, or the exception it ends with
RoiCheck(ctx, rkey, ckey, passText, failText, run) ==
    IF Truthy(PyAnd(Get(ctx, rkey), Get(ctx, ckey)))
    THEN LET r == validate_roi(ctx[rkey], ctx[ckey], run)
         IN  IF r.kind = "raise" THEN [exc |-> r.exc,
                                       kind |-> "raise",
                                       queries |-> r.queries]
             ELSE IF Truthy(r.value["valid"])
             THEN [checks |-> << <<CHECK, passText, Fmt2(r.value["roi"]), "x">> >>,
                   kind |-> "ok",
                   queries |-> r.queries]
             ELSE LET v == DictGet(r.value, "roi", PyInt(0))
                  IN  IF Fmt2Error(v) # ""
                      THEN [exc |-> Fmt2Error(v),
                            kind |-> "raise",
                            queries |-> r.queries]
                      ELSE [checks |-> << <<CROSS, failText, Fmt2(v), "x (need 1.5x+)">> >>,
                            kind |-> "ok",
                            queries |-> r.queries]
    ELSE [checks |-> <<>>, kind |-> "ok", queries |-> <<>>]

\* all("U+2713" in check for check in checks)
AllChecksPassed(checks) == \A i \in DOMAIN checks : HasCheckMark(checks[i])

\* _validate_gate_p3(context)
_validate_gate_p3(ctx, run) ==
    LET roi == RoiCheck(ctx, "revenue", "costs", " MIDAS: ROI ", " MIDAS: ROI ", run)
    IN  IF roi.kind = "raise" THEN Raise(roi.exc, roi.queries)
        ELSE LET checks ==
                   <<FlagCheck(ctx, "business_model_sound",
                               " AXIS: Business model sound", " AXIS: Business model weak"),
                     IF ~Truthy(Get(ctx, "unvalidated_claims"))
                     THEN <<CHECK, " BILL: No unvalidated claims">>
                     ELSE <<CROSS, " BILL: Unvalidated claims exist">> >>
                   \o roi.checks \o
                   <<FlagCheck(ctx, "timeline_realistic",
                               " GANTT: Timeline realistic", " GANTT: Timeline unrealistic"),
                     FlagCheck(ctx, "risks_mitigated",
                               " SENECA: Risks mitigated", " SENECA: Risks not addressed"),
                     FlagCheck(ctx, "tech_stack_validated",
                               " TURING: Tech stack validated",
                               " TURING: Tech stack not validated")>>
                 all_checks_passed == AllChecksPassed(checks)
             IN  Return(GateDictReason(PyBool(all_checks_passed),
                                       "P2 -> P3 (Week 6 - Sacred $100 decision)", checks,
                                       "PROCEED (return $100)", "HALT (keep $100)",
                                       "All validation passed", "Critical validation failed"),
                        roi.queries)

\* _validate_gate_p4(context)
_validate_gate_p4(ctx) ==
    LET checks == <<FlagCheck(ctx, "code_complete", " Code complete", " Code incomplete"),
                    FlagCheck(ctx, "tests_passing", " All tests passing", " Tests failing"),
                    FlagCheck(ctx, "deployment_ready",
                              " Deployment ready", " Deployment not ready")>>
        valid == \A key \in {"code_complete", "tests_passing", "deployment_ready"} :
                     Truthy(Get(ctx, key))
    IN  Return(GateDict(PyBool(valid), "P3 -> P4", checks, "PROCEED", "HALT"), <<>>)

\* _validate_gate_p5(context)
_validate_gate_p5(ctx, run) ==
    LET roi == RoiCheck(ctx, "actual_revenue", "actual_costs",
                        " Actual ROI: ", " Actual ROI: ", run)
    IN  IF roi.kind = "raise" THEN Raise(roi.exc, roi.queries)
        ELSE LET checks ==
                   <<FlagCheck(ctx, "validation_complete",
                               " Validation complete", " Validation incomplete")>>
                   \o roi.checks \o
                   <<FlagCheck(ctx, "sustainability_proven",
                               " Sustainability proven", " Sustainability not proven")>>
                 valid == AllChecksPassed(checks)
             IN  Return(GateDictReason(PyBool(valid),
                                       "P4 -> P5 (Week 10 - Sustainability check)", checks,
                                       "PROCEED (iterate)", "HALT (pivot or kill)",
                                       "Sustainable", "Not sustainable"),
                        roi.queries)

\* the keys of gate_validators (lines 121-127)
GatePhases == {"p1", "p2", "p3", "p4", "p5"}

validate_phase_gate_default_p1(phase, ctx, run) ==
    CASE phase = "p2" -> _validate_gate_p2(ctx)
      [] phase = "p3" -> _validate_gate_p3(ctx, run)
      [] phase = "p4" -> _validate_gate_p4(ctx)
      [] phase = "p5" -> _validate_gate_p5(ctx, run)
      [] OTHER -> _validate_gate_p1(ctx)

\* validate_phase_gate(phase, context)
validate_phase_gate(phase, ctx, run) ==
    IF phase \notin GatePhases
    THEN Return([reason |-> PyStr("Unknown phase: " \o phase), valid |-> PyBool(FALSE)], <<>>)
    ELSE CASE phase = "p1" -> _validate_gate_p1(ctx)
           [] phase = "p2" -> _validate_gate_p2(ctx)
           [] phase = "p3" -> _validate_gate_p3(ctx, run)
           [] phase = "p4" -> _validate_gate_p4(ctx)
           [] phase = "p5" -> _validate_gate_p5(ctx, run)

(***************************************************************************)
(* Technology audit.  A technology name is the sequence of its characters, *)
(* so that `x in tech_lower` is a real substring test.                     *)
(***************************************************************************)
\* needle in hay
Contains(hay, needle) ==
    \E i \in 0..(Len(hay) - Len(needle)) : SubSeq(hay, i + 1, i + Len(needle)) = needle

LowerChar(c) ==
    CASE c = "K" -> "k"
      [] c = "R" -> "r"
      [] c = "S" -> "s"
      [] OTHER -> c

\* tech.lower()
Lower(tech) == [i \in DOMAIN tech |-> LowerChar(tech[i])]

simple_choices ==
    {<<"f","a","s","t","a","p","i">>, <<"f","l","a","s","k">>, <<"g","o">>,
     <<"h","t","m","x">>, <<"a","l","p","i","n","e">>,
     <<"t","a","i","l","w","i","n","d">>, <<"p","o","s","t","g","r","e","s">>,
     <<"s","q","l","i","t","e">>}

\* the alternatives dict, in insertion order
alternatives ==
    <<[alt |-> "Consider HTMX + Alpine.js for simpler SSR",
       key |-> <<"r","e","a","c","t">>],
      [alt |-> "Consider HTMX or plain JS", key |-> <<"a","n","g","u","l","a","r">>],
      [alt |-> "Consider Fly.io or Heroku unless 10K+ users",
       key |-> <<"k","u","b","e","r","n","e","t","e","s">>],
      [alt |-> "Start with monolith, split later",
       key |-> <<"m","i","c","r","o","s","e","r","v","i","c","e","s">>],
      [alt |-> "Use PostgreSQL unless specific need validated",
       key |-> <<"m","o","n","g","o","d","b">>]>>

ai_unfriendly ==
    {<<"r","e","a","c","t">>, <<"a","n","g","u","l","a","r">>, <<"v","u","e">>,
     <<"d","j","a","n","g","o">>}

complex_deploy ==
    {<<"k","u","b","e","r","n","e","t","e","s">>, <<"k","8","s">>,
     <<"d","o","c","k","e","r","-","c","o","m","p","o","s","e">>}

NoAlternative == "None"

\* _check_simpler_alternative(tech)
_check_simpler_alternative(tech) ==
    LET tech_lower == Lower(tech)
        hits == {i \in DOMAIN alternatives : Contains(tech_lower, alternatives[i].key)}
    IN  IF \E simple \in simple_choices : Contains(tech_lower, simple)
        THEN [alternative |-> NoAlternative, valid |-> TRUE]
        ELSE IF hits # {}
        THEN [alternative |-> alternatives[CHOOSE i \in hits : \A j \in hits : i <= j].alt,
              valid |-> FALSE]
        ELSE [alternative |-> NoAlternative, valid |-> TRUE]

\* _check_ai_friendly(tech)
_check_ai_friendly(tech) ==
    ~\E unfriendly \in ai_unfriendly : Contains(Lower(tech), unfriendly)

\* _check_deploy_simple(tech)
_check_deploy_simple(tech) ==
    ~\E complex \in complex_deploy : Contains(Lower(tech), complex)

Approved == <<CHECK, " Approved">>
Reconsider == <<WARN, " Reconsider">>

TechResult_warn_on_reconsider(tech) ==
    LET simpler == _check_simpler_alternative(tech)
        ai_friendly == _check_ai_friendly(tech)
        deploy_simple == _check_deploy_simple(tech)
        recommendation == IF simpler.valid /\ ai_friendly /\ deploy_simple
                          THEN Approved ELSE Reconsider
    IN  IF recommendation = Reconsider
        THEN [ai_friendly |-> ai_friendly,
              deploy_simple |-> deploy_simple,
              recommendation |-> recommendation,
              simpler_checked |-> simpler.valid,
              tech |-> tech,
              warning |-> simpler.alternative]
        ELSE [ai_friendly |-> ai_friendly,
              deploy_simple |-> deploy_simple,
              recommendation |-> recommendation,
              simpler_checked |-> simpler.valid,
              tech |-> tech]

\* the result dict of one technology (lines 303-316)
TechResult(tech) ==
    LET simpler == _check_simpler_alternative(tech)
        ai_friendly == _check_ai_friendly(tech)
        deploy_simple == _check_deploy_simple(tech)
        recommendation == IF simpler.valid /\ ai_friendly /\ deploy_simple
                          THEN Approved ELSE Reconsider
    IN  IF ~simpler.valid
        THEN [ai_friendly |-> ai_friendly,
              deploy_simple |-> deploy_simple,
              recommendation |-> recommendation,
              simpler_checked |-> simpler.valid,
              tech |-> tech,
              warning |-> simpler.alternative]
        ELSE [ai_friendly |-> ai_friendly,
              deploy_simple |-> deploy_simple,
              recommendation |-> recommendation,
              simpler_checked |-> simpler.valid,
              tech |-> tech]

\* validate_tech_stack(tech_choices)
validate_tech_stack(tech_choices) ==
    LET results == [i \in DOMAIN tech_choices |-> TechResult(tech_choices[i])]
        all_valid == \A i \in DOMAIN results : results[i]["recommendation"] = Approved
    IN  Return([overall |-> IF all_valid THEN "Stack approved" ELSE "Stack needs review",
                tech_choices |-> results,
                valid |-> PyBool(all_valid)],
               <<>>)

(***************************************************************************)
(* The report.  The text is kept as the list `report` of its lines before  *)
(* "\n".join; a line is the sequence of the pieces it is built from.       *)
(***************************************************************************)
\* str() of a threshold: 1.5 and 3.0
StrFloat(v) ==
    ToString(v.n \div v.d) \o "." \o (IF v.n % v.d = 0 THEN "0" ELSE "5")

\* f"- Status: {'U+2713 PASS' if result['valid'] else 'U+2717 FAIL'}"
StatusLine(valid) ==
    IF Truthy(valid) THEN <<"- Status: ", CHECK, " PASS">>
    ELSE <<"- Status: ", CROSS, " FAIL">>

\* the lines a metric section appends (lines 400-403, 408-411), or the
\* exception it ends with; r is how the metric call ended
MetricSection(r, field, title, label, unit) ==
    IF r.kind = "raise" THEN [exc |-> r.exc, kind |-> "raise", queries |-> r.queries]
    ELSE LET v == DictGet(r.value, field, PyInt(0))
         IN  IF Fmt2Error(v) # ""
             THEN [exc |-> Fmt2Error(v), kind |-> "raise", queries |-> r.queries]
             ELSE IF "threshold" \notin DOMAIN r.value
             THEN [exc |-> "KeyError", kind |-> "raise", queries |-> r.queries]
             ELSE [kind |-> "ok",
                   lines |-> << <<title>>,
                                <<label, Fmt2(v), unit \o " (threshold: ",
                                  StrFloat(r.value["threshold"]), unit \o ")">>,
                                StatusLine(r.value["valid"]),
                                <<>> >>,
                   queries |-> r.queries]

NoSection == [kind |-> "ok", lines |-> <<>>, queries |-> <<>>]

\* the value a local variable holds: the element of a one-element set
The(S) == CHOOSE x \in S : TRUE

\* lines 398-403
RoiSection(ctx, run) ==
    IF "revenue" \in DOMAIN ctx /\ "costs" \in DOMAIN ctx
    THEN The({MetricSection(roi_result, "roi", "## ROI Validation", "- ROI: ", "x") :
                 roi_result \in {validate_roi(ctx["revenue"], ctx["costs"], run)}})
    ELSE NoSection

\* lines 406-411
LtvCacSection(ctx, run) ==
    IF "ltv" \in DOMAIN ctx /\ "cac" \in DOMAIN ctx
    THEN The({MetricSection(ltv_cac_result, "ratio", "## Unit Economics Validation",
                            "- LTV:CAC: ", "") :
                 ltv_cac_result \in {validate_ltv_cac(ctx["ltv"], ctx["cac"], run)}})
    ELSE NoSection

\* the lines appended for gate_result (lines 415-419), or the exception
GateLines(gate_result) ==
    IF gate_result.kind = "raise"
    THEN [exc |-> gate_result.exc, kind |-> "raise", queries |-> gate_result.queries]
    ELSE IF "gate" \notin DOMAIN gate_result.value
    THEN [exc |-> "KeyError", kind |-> "raise", queries |-> gate_result.queries]
    ELSE [kind |-> "ok",
          lines |-> << <<"## Phase Gate: ", gate_result.value["gate"]>> >>
                    \o [i \in DOMAIN gate_result.value["checks"] |->
                           <<"- ">> \o gate_result.value["checks"][i]]
                    \o << <<"- Decision: **", gate_result.value["decision"], "**">>,
                          <<>> >>,
          queries |-> gate_result.queries]

\* lines 414-420
GateSection(ctx, run) ==
    IF "current_phase" \in DOMAIN ctx
    THEN The({GateLines(gate_result) :
                 gate_result \in {validate_phase_gate(ctx["current_phase"].s, ctx, run)}})
    ELSE NoSection

\* the lines of the technologies (lines 426-429)
RECURSIVE TechLines(_)
TechLines(results) ==
    IF results = <<>> THEN <<>>
    ELSE << <<"- ">> \o Head(results)["tech"] \o <<": ">>
               \o Head(results)["recommendation"] >>
         \o (IF "warning" \in DOMAIN Head(results)
             THEN << <<"  ", WARN, " ", Head(results)["warning"]>> >>
             ELSE <<>>)
         \o TechLines(Tail(results))

\* lines 423-430
TechSection(ctx) ==
    IF "tech_stack" \in DOMAIN ctx
    THEN The({[kind |-> "ok",
               lines |-> << <<"## Tech Stack Validation">> >>
                         \o TechLines(tech_result.value["tech_choices"]) \o << <<>> >>,
               queries |-> tech_result.queries] :
                 tech_result \in {validate_tech_stack(ctx["tech_stack"].items)}})
    ELSE NoSection

\* the report of the four sections: the first exception, else the text
ReportOf(roi, ltv_cac, gate, tech) ==
    IF roi.kind = "raise" THEN Raise(roi.exc, roi.queries)
    ELSE IF ltv_cac.kind = "raise"
    THEN Raise(ltv_cac.exc, roi.queries \o ltv_cac.queries)
    ELSE IF gate.kind = "raise"
    THEN Raise(gate.exc, roi.queries \o ltv_cac.queries \o gate.queries)
    ELSE Return([lines |-> << <<"# Validation Report\n">> >>
                           \o roi.lines \o ltv_cac.lines \o gate.lines \o tech.lines,
                 t |-> "report"],
                roi.queries \o ltv_cac.queries \o gate.queries)

\* generate_validation_report(context), when the engine process of the k-th
\* metric or gate that may ask the engine ends as runs[k]
generate_validation_report(ctx, runs) ==
    The({ReportOf(roi, ltv_cac, gate, tech) :
            roi \in {RoiSection(ctx, runs[1])},
            ltv_cac \in {LtvCacSection(ctx, runs[2])},
            gate \in {GateSection(ctx, runs[3])},
            tech \in {TechSection(ctx)}})

(***************************************************************************)
(* Inputs and state.                                                       *)
(***************************************************************************)
Revenues == {PyInt(i) : i \in -1..MaxRevenue}
Costs == {PyInt(i) : i \in -1..MaxCosts}

NoCall == [op |-> "none"]
Call(op, args, result) == [args |-> args, op |-> op, result |-> result]

\* the state once PrologValidator(...) has returned
Init ==
    /\ prolog_available \in {_check_prolog_available(p) : p \in ProbeOutcomes}
    /\ last = NoCall
    /\ marked = NoCall

(***************************************************************************)
(* Contexts and technology lists the calls are made with.                  *)
(***************************************************************************)
Absent == [t |-> "absent"]

\* the dict holding the keys of f that are given a value
Dict(f) == [k \in {x \in DOMAIN f : f[x] # Absent} |-> f[k]]

Flags == {PyBool(TRUE), PyBool(FALSE)}
\* what a caller may put under an evidence key: nothing, a bool, a number, a string
Evidence == {Absent, PyBool(TRUE), PyBool(FALSE), PyInt(0), PyStr("yes")}
Tiers == {Absent, PyStr("t1"), PyStr("t2"), PyStr("t3"), PyInt(1)}
\* figures a gate is given: none, a string, and numbers on both sides of the
\* threshold (revenue three times the costs is an ROI of 2.0)
GateRevenues == {Absent, PyInt(0), PyInt(MaxCosts), PyInt(3 * MaxCosts)}
GateCosts == {Absent, PyStr("n/a"), PyInt(-1), PyInt(0), PyInt(MaxCosts)}

ContextsP1 ==
    {Dict([research_complete |-> r, tier |-> t]) : r \in Evidence, t \in Tiers}
ContextsP2 ==
    {Dict([business_model_sound |-> b, market_validated |-> m]) :
        b \in Evidence, m \in Evidence}
ContextsP3 ==
    {Dict([business_model_sound |-> f[1],
           costs |-> c,
           revenue |-> r,
           risks_mitigated |-> f[3],
           tech_stack_validated |-> f[4],
           timeline_realistic |-> f[2],
           unvalidated_claims |-> u]) :
        f \in [1..4 -> Flags], u \in {Absent, PyBool(TRUE)},
        r \in GateRevenues, c \in GateCosts}
ContextsP4 ==
    {Dict([code_complete |-> c, deployment_ready |-> d, tests_passing |-> t]) :
        c \in Evidence, t \in Flags \cup {Absent}, d \in Flags \cup {Absent}}
ContextsP5 ==
    {Dict([actual_costs |-> c,
           actual_revenue |-> r,
           sustainability_proven |-> s,
           validation_complete |-> v]) :
        v \in Flags, s \in Flags, r \in GateRevenues, c \in GateCosts}

UnknownPhases == {"p0", "p9", "P3"}

TechNames ==
    {<<"p","o","s","t","g","r","e","s">>, <<"r","e","a","c","t">>,
     <<"k","u","b","e","r","n","e","t","e","s">>, <<"m","o","n","g","o","d","b">>,
     <<"K","8","S">>}
\* the stack of the documented example
ExampleStack ==
    <<<<"p","o","s","t","g","r","e","s">>, <<"r","e","a","c","t">>,
      <<"k","u","b","e","r","n","e","t","e","s">>>>
\* every technology the alternatives mapping names, on its own
AlternativeKeys == {alternatives[i].key : i \in DOMAIN alternatives}
TechLists ==
    UNION {[1..n -> TechNames] : n \in 0..MaxTechs} \cup {ExampleStack}
    \cup {<<key>> : key \in AlternativeKeys}

\* a list value of a context
PyList(items) == [items |-> items, t |-> "list"]

\* the context with every input of the report given, the figures positive
FullContext ==
    [cac |-> PyInt(1),
     costs |-> PyInt(MaxCosts),
     current_phase |-> PyStr("p3"),
     ltv |-> PyInt(3),
     revenue |-> PyInt(MaxRevenue),
     tech_stack |-> PyList(ExampleStack)]
\* one input taken away or changed: a denominator non-positive, another
\* phase, an unknown phase
Deviations ==
    {<<"revenue", Absent>>, <<"costs", Absent>>, <<"costs", PyInt(0)>>,
     <<"costs", PyInt(-1)>>, <<"ltv", Absent>>, <<"cac", Absent>>,
     <<"cac", PyInt(0)>>, <<"current_phase", Absent>>,
     <<"current_phase", PyStr("p2")>>, <<"current_phase", PyStr("p9")>>,
     <<"tech_stack", Absent>>}
\* the inputs of each section, and of no section
SectionInputs ==
    {{}, {"revenue", "costs"}, {"ltv", "cac"}, {"current_phase"}, {"tech_stack"}}
\* contexts a report is asked for
ReportContexts ==
    {Dict(FullContext)}
    \cup {Dict([FullContext EXCEPT ![dev[1]] = dev[2]]) : dev \in Deviations}
    \cup {Dict([k \in DOMAIN FullContext |->
                   IF k \in ks THEN FullContext[k] ELSE Absent]) : ks \in SectionInputs}
\* how the engine processes of one report end: all the same way, or the
\* first one differently from the others; none is started without engine
ReportRuns ==
    IF prolog_available
    THEN {<<r, r, r>> : r \in RunOutcomes}
         \cup {<<[kind |-> "exit", returncode |-> 0],
                 [exc |-> "TimeoutExpired", kind |-> "raise"],
                 [exc |-> "TimeoutExpired", kind |-> "raise"]>>,
               <<[exc |-> "TimeoutExpired", kind |-> "raise"],
                 [kind |-> "exit", returncode |-> 0],
                 [kind |-> "exit", returncode |-> 0]>>}
    ELSE {<<r, r, r>> : r \in {[kind |-> "exit", returncode |-> 0]}}

(***************************************************************************)
(* Actions: one per public method.  A call is recorded in `last`.          *)
(***************************************************************************)
ValidateRoi ==
    \E revenue \in Revenues, costs \in Costs :
      \E result \in {validate_roi(revenue, costs, run) : run \in RunOutcomes} :
        /\ last' = Call("validate_roi", [costs |-> costs, revenue |-> revenue], result)
        /\ UNCHANGED <<prolog_available, marked>>

ValidateLtvCac ==
    \E ltv \in Revenues, cac \in Costs :
      \E result \in {validate_ltv_cac(ltv, cac, run) : run \in RunOutcomes} :
        /\ last' = Call("validate_ltv_cac", [cac |-> cac, ltv |-> ltv], result)
        /\ UNCHANGED <<prolog_available, marked>>

ValidateMargin ==
    \E revenue \in Revenues, costs \in Costs :
      \E result \in {validate_margin(revenue, costs, run) : run \in RunOutcomes} :
        /\ last' = Call("validate_margin", [costs |-> costs, revenue |-> revenue], result)
        /\ UNCHANGED <<prolog_available, marked>>

ValidateGateP1 ==
    \E ctx \in ContextsP1 :
      \E result \in {validate_phase_gate("p1", ctx, run) : run \in RunOutcomes} :
        /\ last' = Call("validate_phase_gate", [context |-> ctx, phase |-> "p1"], result)
        /\ UNCHANGED <<prolog_available, marked>>

ValidateGateP2 ==
    \E ctx \in ContextsP2 :
      \E result \in {validate_phase_gate("p2", ctx, run) : run \in RunOutcomes} :
        /\ last' = Call("validate_phase_gate", [context |-> ctx, phase |-> "p2"], result)
        /\ UNCHANGED <<prolog_available, marked>>

ValidateGateP3 ==
    \E ctx \in ContextsP3 :
      \E result \in {validate_phase_gate("p3", ctx, run) : run \in RunOutcomes} :
        /\ last' = Call("validate_phase_gate", [context |-> ctx, phase |-> "p3"], result)
        /\ UNCHANGED <<prolog_available, marked>>

ValidateGateP4 ==
    \E ctx \in ContextsP4 :
      \E result \in {validate_phase_gate("p4", ctx, run) : run \in RunOutcomes} :
        /\ last' = Call("validate_phase_gate", [context |-> ctx, phase |-> "p4"], result)
        /\ UNCHANGED <<prolog_available, marked>>

ValidateGateP5 ==
    \E ctx \in ContextsP5 :
      \E result \in {validate_phase_gate("p5", ctx, run) : run \in RunOutcomes} :
        /\ last' = Call("validate_phase_gate", [context |-> ctx, phase |-> "p5"], result)
        /\ UNCHANGED <<prolog_available, marked>>

ValidateGateUnknown ==
    \E phase \in UnknownPhases, ctx \in ContextsP2 :
      \E result \in {validate_phase_gate(phase, ctx, run) : run \in RunOutcomes} :
        /\ last' = Call("validate_phase_gate", [context |-> ctx, phase |-> phase], result)
        /\ UNCHANGED <<prolog_available, marked>>

ValidateTechStack ==
    \E tech_choices \in TechLists :
        /\ last' = Call("validate_tech_stack", [tech_choices |-> tech_choices],
                        validate_tech_stack(tech_choices))
        /\ UNCHANGED <<prolog_available, marked>>

GenerateValidationReport ==
    \E context \in ReportContexts :
      \E result \in {generate_validation_report(context, runs) : runs \in ReportRuns} :
        /\ last' = Call("generate_validation_report", [context |-> context], result)
        /\ UNCHANGED <<prolog_available, marked>>

Next ==
    \/ ValidateRoi
    \/ ValidateLtvCac
    \/ ValidateMargin
    \/ ValidateGateP1
    \/ ValidateGateP2
    \/ ValidateGateP3
    \/ ValidateGateP4
    \/ ValidateGateP5
    \/ ValidateGateUnknown
    \/ ValidateTechStack
    \/ GenerateValidationReport

Spec == Init /\ [][Next]_vars

(***************************************************************************)
(* The same calls over fewer inputs, with one call kept in `marked`: the   *)
(* kept call is compared with every later call of the same operation with  *)
(* the same arguments; `between` tells that another call came in between.  *)
(***************************************************************************)
Keep(call) ==
    IF marked = NoCall
    THEN {NoCall, [between |-> FALSE, call |-> call]}
    ELSE {[marked EXCEPT !.between =
              @ \/ call.op # marked.call.op \/ call.args # marked.call.args]}

DetRevenues == {PyInt(0), PyInt(MaxRevenue)}
DetCosts == {PyInt(0), PyInt(MaxCosts)}
DetFigure == PyInt(3 * MaxCosts)
DetGateCalls ==
    {[context |-> [research_complete |-> PyBool(TRUE), tier |-> PyStr("t1")],
      phase |-> "p1"],
     [context |-> [business_model_sound |-> PyBool(TRUE),
                   market_validated |-> PyBool(TRUE)],
      phase |-> "p2"],
     [context |-> [business_model_sound |-> PyBool(TRUE), costs |-> PyInt(MaxCosts),
                   revenue |-> DetFigure, risks_mitigated |-> PyBool(TRUE),
                   tech_stack_validated |-> PyBool(TRUE),
                   timeline_realistic |-> PyBool(TRUE)],
      phase |-> "p3"],
     [context |-> [code_complete |-> PyBool(TRUE), deployment_ready |-> PyBool(TRUE),
                   tests_passing |-> PyBool(TRUE)],
      phase |-> "p4"],
     [context |-> [actual_costs |-> PyInt(MaxCosts), actual_revenue |-> PyInt(0),
                   sustainability_proven |-> PyBool(TRUE),
                   validation_complete |-> PyBool(TRUE)],
      phase |-> "p5"],
     [context |-> [actual_costs |-> PyInt(MaxCosts), actual_revenue |-> DetFigure,
                   sustainability_proven |-> PyBool(TRUE),
                   validation_complete |-> PyBool(TRUE)],
      phase |-> "p5"],
     [context |-> [business_model_sound |-> PyBool(TRUE),
                   market_validated |-> PyBool(TRUE)],
      phase |-> "p9"]}
DetTechLists == {<<>>, ExampleStack, <<<<"m","o","n","g","o","d","b">>>>}

DetValidateRoi ==
    \E revenue \in DetRevenues, costs \in DetCosts :
      \E result \in {validate_roi(revenue, costs, run) : run \in RunOutcomes} :
        /\ last' = Call("validate_roi", [costs |-> costs, revenue |-> revenue], result)
        /\ marked' \in Keep(last')
        /\ UNCHANGED prolog_available

DetValidateLtvCac ==
    \E ltv \in DetRevenues, cac \in DetCosts :
      \E result \in {validate_ltv_cac(ltv, cac, run) : run \in RunOutcomes} :
        /\ last' = Call("validate_ltv_cac", [cac |-> cac, ltv |-> ltv], result)
        /\ marked' \in Keep(last')
        /\ UNCHANGED prolog_available

DetValidateMargin ==
    \E revenue \in DetRevenues, costs \in DetCosts :
      \E result \in {validate_margin(revenue, costs, run) : run \in RunOutcomes} :
        /\ last' = Call("validate_margin", [costs |-> costs, revenue |-> revenue], result)
        /\ marked' \in Keep(last')
        /\ UNCHANGED prolog_available

DetValidatePhaseGate ==
    \E args \in DetGateCalls :
      \E result \in {validate_phase_gate(args.phase, args.context, run) :
                          run \in RunOutcomes} :
        /\ last' = Call("validate_phase_gate", args, result)
        /\ marked' \in Keep(last')
        /\ UNCHANGED prolog_available

DetValidateTechStack ==
    \E tech_choices \in DetTechLists :
        /\ last' = Call("validate_tech_stack", [tech_choices |-> tech_choices],
                        validate_tech_stack(tech_choices))
        /\ marked' \in Keep(last')
        /\ UNCHANGED prolog_available

NextDet ==
    \/ DetValidateRoi
    \/ DetValidateLtvCac
    \/ DetValidateMargin
    \/ DetValidatePhaseGate
    \/ DetValidateTechStack

SpecDet == Init /\ [][NextDet]_vars

(***************************************************************************)
(* What the last call was.                                                 *)
(***************************************************************************)
Called(op) == last # NoCall /\ last.op = op
Returned == last # NoCall /\ last.result.kind = "return"
Args == last.args
Value == last.result.value
Queries == last.result.queries

MetricOps == {"validate_roi", "validate_ltv_cac", "validate_margin"}
CalledMetric == last # NoCall /\ last.op \in MetricOps
\* the numeric field of a metric's result and the argument it divides by
MetricField == CASE last.op = "validate_roi" -> "roi"
                 [] last.op = "validate_ltv_cac" -> "ratio"
                 [] last.op = "validate_margin" -> "margin"
Denominator ==
    CASE last.op = "validate_roi" -> Args.costs.i
      [] last.op = "validate_ltv_cac" -> Args.cac.i
      [] last.op = "validate_margin" -> Args.revenue.i

\* the threshold comparisons, on the arguments: (revenue - costs) / costs >= 1.5
\* is 2 * revenue >= 5 * costs for costs > 0, and so on
RoiMeetsThreshold(revenue, costs) == 2 * revenue >= 5 * costs
MetricMeetsThreshold ==
    CASE last.op = "validate_roi" -> RoiMeetsThreshold(Args.revenue.i, Args.costs.i)
      [] last.op = "validate_ltv_cac" -> Args.ltv.i >= 3 * Args.cac.i
      [] last.op = "validate_margin" -> 5 * (Args.revenue.i - Args.costs.i) >= Args.revenue.i

(***************************************************************************)
(* C1: for costs > 0 and every outcome of the engine query, validate_roi   *)
(* returns the `valid` the fallback comparison gives.                      *)
(***************************************************************************)
C1_EngineAgreesWithFallback ==
    (Called("validate_roi") /\ Args.costs.i > 0) =>
        /\ Returned
        /\ Value["valid"] = PyBool(RoiMeetsThreshold(Args.revenue.i, Args.costs.i))

(***************************************************************************)
(* C2: with no engine and costs > 0, validate_roi returns valid = true     *)
(* exactly when 2 * revenue >= 5 * costs, validated by the fallback.       *)
(***************************************************************************)
C2_FallbackRoiThreshold ==
    (~prolog_available /\ Called("validate_roi") /\ Args.costs.i > 0) =>
        /\ Returned
        /\ Value["valid"] = PyBool(RoiMeetsThreshold(Args.revenue.i, Args.costs.i))
        /\ Value["validated_by"] = PyStr("python")

\* the fallback has judged an ROI of exactly 1.5
C2_Witness ==
    /\ ~prolog_available /\ Called("validate_roi") /\ Returned
    /\ Args.costs.i > 0 /\ 2 * Args.revenue.i = 5 * Args.costs.i
    /\ Value["valid"] = PyBool(TRUE)

(***************************************************************************)
(* C3: for costs <= 0 validate_roi returns valid = false, the positive-    *)
(* costs reason and a null ROI, asking the engine nothing; and a metric's  *)
(* numeric value is null only when its denominator is not positive, and    *)
(* then valid is false.                                                    *)
(***************************************************************************)
C3_NonPositiveDenominator ==
    /\ (Called("validate_roi") /\ Args.costs.i <= 0) =>
          /\ Returned
          /\ Value = [reason |-> PyStr("Costs must be positive"),
                      roi |-> None_,
                      valid |-> PyBool(FALSE)]
          /\ Queries = <<>>
    /\ CalledMetric =>
          /\ Returned
          /\ MetricField \in DOMAIN Value
          /\ Value[MetricField] = None_ =>
                (Denominator <= 0 /\ Value["valid"] = PyBool(FALSE))

\* validate_roi was called with costs <= 0 on a validator whose engine is available
C3_Witness ==
    /\ prolog_available /\ Called("validate_roi") /\ Args.costs.i <= 0
    /\ Returned /\ Value["roi"] = None_

(***************************************************************************)
(* C4: validate_phase_gate never raises: every call returns a result that  *)
(* carries `valid`.                                                        *)
(***************************************************************************)
C4_PhaseGateNeverRaises ==
    Called("validate_phase_gate") => (Returned /\ "valid" \in DOMAIN Value)

(***************************************************************************)
(* C5: gate p3 with no engine: with every sub-condition true the decision  *)
(* is to proceed; with exactly one of them false, the others kept, the     *)
(* decision is to halt and valid is false.                                 *)
(***************************************************************************)
\* the sub-conditions of gate p3, on the context
P3Flag(ctx, key) == key \in DOMAIN ctx /\ ctx[key] = PyBool(TRUE)
P3NoClaims(ctx) == ~("unvalidated_claims" \in DOMAIN ctx /\ Truthy(ctx["unvalidated_claims"]))
P3HasFigures(ctx) ==
    /\ "revenue" \in DOMAIN ctx /\ ctx["revenue"].t = "int"
    /\ "costs" \in DOMAIN ctx /\ ctx["costs"].t = "int" /\ ctx["costs"].i > 0
P3RoiOk(ctx) == RoiMeetsThreshold(ctx["revenue"].i, ctx["costs"].i)
P3Failed(ctx) ==
    {key \in {"business_model_sound", "timeline_realistic", "risks_mitigated",
              "tech_stack_validated"} : ~P3Flag(ctx, key)}
    \cup (IF P3NoClaims(ctx) THEN {} ELSE {"unvalidated_claims"})
    \cup (IF P3RoiOk(ctx) THEN {} ELSE {"roi"})

C5_GateP3SingleFlip ==
    (~prolog_available /\ Called("validate_phase_gate") /\ Args.phase = "p3"
        /\ P3HasFigures(Args.context)) =>
        /\ P3Failed(Args.context) = {} =>
              /\ Returned
              /\ Value["valid"] = PyBool(TRUE)
              /\ Value["decision"] = "PROCEED (return $100)"
        /\ Cardinality(P3Failed(Args.context)) = 1 =>
              /\ Returned
              /\ Value["valid"] = PyBool(FALSE)
              /\ Value["decision"] = "HALT (keep $100)"

(***************************************************************************)
(* C6: in every gate result `checks` holds one pass/fail entry per         *)
(* sub-criterion, `valid` is a boolean, and `valid` is the AND of the      *)
(* outcomes recorded in `checks`.                                          *)
(***************************************************************************)
Marks == {CHECK, CROSS}
OneMark(check) ==
    /\ Len(check) >= 1 /\ check[1] \in Marks
    /\ \A i \in 2..Len(check) : check[i] \notin Marks
ChecksExpected ==
    CASE Args.phase \in {"p1", "p2"} -> {2}
      [] Args.phase = "p3" -> {5, 6}
      [] Args.phase = "p4" -> {3}
      [] Args.phase = "p5" -> {2, 3}

C6_GateResultInvariant ==
    (Called("validate_phase_gate") /\ Args.phase \in GatePhases /\ Returned) =>
        /\ Len(Value["checks"]) \in ChecksExpected
        /\ \A i \in DOMAIN Value["checks"] : OneMark(Value["checks"][i])
        /\ Value["valid"].t = "bool"
        /\ Value["valid"] = PyBool(\A i \in DOMAIN Value["checks"] :
                                       Value["checks"][i][1] = CHECK)

(***************************************************************************)
(* C7: for a phase outside p1..p5 validate_phase_gate returns valid =      *)
(* false with a reason naming the phase; no gate is evaluated and nothing  *)
(* is raised.                                                              *)
(***************************************************************************)
C7_UnknownPhase ==
    (Called("validate_phase_gate") /\ Args.phase \notin {"p1", "p2", "p3", "p4", "p5"}) =>
        /\ Returned
        /\ Value = [reason |-> PyStr("Unknown phase: " \o Args.phase),
                    valid |-> PyBool(FALSE)]
        /\ Queries = <<>>

\* validate_phase_gate("p9", ...) was called with a context that passes gate p2
C7_Witness ==
    /\ Called("validate_phase_gate") /\ Args.phase = "p9" /\ Returned
    /\ "business_model_sound" \in DOMAIN Args.context /\ Truthy(Args.context["business_model_sound"])
    /\ "market_validated" \in DOMAIN Args.context /\ Truthy(Args.context["market_validated"])

(***************************************************************************)
(* C8: validate_tech_stack recommends a technology `approved` exactly when *)
(* its three policies pass and `reconsider` otherwise, attaches a warning  *)
(* exactly when the complexity-avoidance policy fails, and is valid        *)
(* exactly when every technology is approved; postgres, react, kubernetes  *)
(* gives one approved and two reconsider, react not ai_friendly and        *)
(* kubernetes not deploy_simple.                                           *)
(***************************************************************************)
TechRecordOk(r) ==
    /\ r["recommendation"] =
          (IF r["simpler_checked"] /\ r["ai_friendly"] /\ r["deploy_simple"]
           THEN Approved ELSE Reconsider)
    /\ ("warning" \in DOMAIN r) <=> ~r["simpler_checked"]

C8_TechStackAudit ==
    Called("validate_tech_stack") =>
        /\ Returned
        /\ LET rs == Value["tech_choices"]
           IN  /\ Len(rs) = Len(Args.tech_choices)
               /\ \A i \in DOMAIN rs : rs[i]["tech"] = Args.tech_choices[i] /\ TechRecordOk(rs[i])
               /\ Value["valid"] =
                     PyBool(\A i \in DOMAIN rs : rs[i]["recommendation"] = Approved)
               /\ Args.tech_choices = ExampleStack =>
                     /\ rs[1]["recommendation"] = Approved
                     /\ rs[2]["recommendation"] = Reconsider
                     /\ rs[3]["recommendation"] = Reconsider
                     /\ ~rs[2]["ai_friendly"]
                     /\ ~rs[3]["deploy_simple"]
                     /\ Value["valid"] = PyBool(FALSE)

\* the documented stack was audited
C8_Witness ==
    /\ Called("validate_tech_stack") /\ Args.tech_choices = ExampleStack /\ Returned
    /\ "warning" \in DOMAIN Value["tech_choices"][2]

(***************************************************************************)
(* C9: two calls of the same operation with the same arguments on one      *)
(* validator return the same result, whatever was called in between.       *)
(* As amended: provided the engine process, where the calls start one,     *)
(* ends the same way in both.                                              *)
(***************************************************************************)
SameCall ==
    /\ marked # NoCall /\ last # NoCall
    /\ last.op = marked.call.op /\ last.args = marked.call.args
SameResult(a, b) ==
    /\ a.kind = b.kind
    /\ IF a.kind = "return" THEN a.value = b.value ELSE a.exc = b.exc
\* how the engine processes of a call ended
Runs(r) == [i \in DOMAIN r.queries |-> r.queries[i].run]

ExitedZero(run) == run.kind = "exit" /\ run.returncode = 0

C10_QueryDegradesToFallback ==
    /\ ~prolog_available =>
          \A run \in RunOutcomes :
              _query_prolog(Query("roi_positive", PyInt(1), PyInt(1)), run)
                  = [kind |-> "return", value |-> None_]
    /\ (CalledMetric /\ Denominator > 0) =>
          /\ Returned
          /\ prolog_available <=> Len(Queries) = 1
          /\ \A i \in DOMAIN Queries :
                /\ Queries[i].ended.kind = "return"
                /\ ~ExitedZero(Queries[i].run) => Queries[i].ended.value = None_
          /\ (~prolog_available \/ \E i \in DOMAIN Queries : ~ExitedZero(Queries[i].run)) =>
                /\ Value["validated_by"] = PyStr("python")
                /\ Value["valid"] = PyBool(MetricMeetsThreshold)
          /\ Value["validated_by"] = PyStr("prolog") =>
                /\ prolog_available
                /\ \E i \in DOMAIN Queries : ExitedZero(Queries[i].run)

\* a query timed out and the metric fell back to its own comparison
C10_Witness ==
    /\ prolog_available /\ CalledMetric /\ Returned /\ Len(Queries) = 1
    /\ Queries[1].run = [exc |-> "TimeoutExpired", kind |-> "raise"]
    /\ Value["validated_by"] = PyStr("python")
    /\ Value["valid"] = PyBool(TRUE)

(***************************************************************************)
(* C11: generate_validation_report returns a report text for every context *)
(* and never raises, also when costs <= 0 or cac <= 0 and when             *)
(* current_phase is unknown; the sections come in the order ROI, unit      *)
(* economics, phase gate, tech stack, and a section whose inputs are       *)
(* absent from the context is omitted.                                     *)
(***************************************************************************)
SectionTitles ==
    {"## ROI Validation", "## Unit Economics Validation", "## Phase Gate: ",
     "## Tech Stack Validation"}
IsTitle(line) == line # <<>> /\ line[1] \in SectionTitles
\* the section titles of a report, in the order they appear
RECURSIVE Titles(_)
Titles(lines) ==
    IF lines = <<>> THEN <<>>
    ELSE (IF IsTitle(Head(lines)) THEN <<Head(lines)[1]>> ELSE <<>>)
         \o Titles(Tail(lines))
\* the titles of the sections whose inputs the context holds, in order
TitlesExpected(ctx) ==
    (IF {"revenue", "costs"} \subseteq DOMAIN ctx THEN <<"## ROI Validation">> ELSE <<>>)
    \o (IF {"ltv", "cac"} \subseteq DOMAIN ctx
        THEN <<"## Unit Economics Validation">> ELSE <<>>)
    \o (IF "current_phase" \in DOMAIN ctx THEN <<"## Phase Gate: ">> ELSE <<>>)
    \o (IF "tech_stack" \in DOMAIN ctx THEN <<"## Tech Stack Validation">> ELSE <<>>)

C11_ReportNeverRaises ==
    Called("generate_validation_report") =>
        /\ Returned
        /\ Titles(Value["lines"]) = TitlesExpected(Args.context)

(***************************************************************************)
(* C12: in gates p3 and p5 the ROI sub-check is evaluated whenever both    *)
(* figures are present in the context, a figure of 0 included: with no     *)
(* engine, both figures present and the ROI below 1.5 or undefined, the    *)
(* gate result is not valid and `checks` holds a failed ROI entry.         *)
(***************************************************************************)
\* the keys gate `phase` reads its figures from (lines 202 and 275)
RevenueKey(phase) == IF phase = "p3" THEN "revenue" ELSE "actual_revenue"
CostsKey(phase) == IF phase = "p3" THEN "costs" ELSE "actual_costs"

FiguresPresent(ctx, phase) ==
    /\ RevenueKey(phase) \in DOMAIN ctx /\ ctx[RevenueKey(phase)].t = "int"
    /\ CostsKey(phase) \in DOMAIN ctx /\ ctx[CostsKey(phase)].t = "int"

\* the ROI of the figures is undefined (costs <= 0) or below 1.5
RoiBelowOrUndefined(ctx, phase) ==
    \/ ctx[CostsKey(phase)].i <= 0
    \/ ~RoiMeetsThreshold(ctx[RevenueKey(phase)].i, ctx[CostsKey(phase)].i)

HasFailedRoiEntry(checks) ==
    \E i \in DOMAIN checks :
        /\ checks[i][1] = CROSS
        /\ checks[i][2] \in {" MIDAS: ROI ", " Actual ROI: "}

C12_RoiSubCheckWhenPresent ==
    (~prolog_available /\ Called("validate_phase_gate") /\ Args.phase \in {"p3", "p5"}
        /\ FiguresPresent(Args.context, Args.phase)
        /\ RoiBelowOrUndefined(Args.context, Args.phase)) =>
        /\ Returned
        /\ Value["valid"] = PyBool(FALSE)
        /\ HasFailedRoiEntry(Value["checks"])

(***************************************************************************)
(* C13: a technology named exactly as a key of the alternatives mapping    *)
(* fails the complexity-avoidance policy: _check_simpler_alternative       *)
(* returns valid = false with the mapped alternative, and                  *)
(* validate_tech_stack reports it as reconsider with that alternative as   *)
(* warning; no entry is shadowed by a substring match of the allow-list.   *)
(***************************************************************************)
C13_AlternativesNotShadowed ==
    Called("validate_tech_stack") =>
        /\ Returned
        /\ \A i \in DOMAIN Args.tech_choices : \A j \in DOMAIN alternatives :
              Args.tech_choices[i] = alternatives[j].key =>
                  /\ _check_simpler_alternative(Args.tech_choices[i])
                        = [alternative |-> alternatives[j].alt, valid |-> FALSE]
                  /\ ~Value["tech_choices"][i]["simpler_checked"]
                  /\ Value["tech_choices"][i]["recommendation"] = Reconsider
                  /\ "warning" \in DOMAIN Value["tech_choices"][i]
                  /\ Value["tech_choices"][i]["warning"] = alternatives[j].alt
====
